---- MODULE Spec2Model ----
(***************************************************************************)
(* Model of package bayes of datastream/probab: Bayesian inference about   *)
(* the Poisson rate (poisson.go), the Normal mean (normal_mu.go) and the   *)
(* difference of two Normal means (normal_diff.go).                        *)
(*                                                                         *)
(* The package is a set of pure functions.  Every exported function is an  *)
(* operator that returns the outcome of one call:                          *)
(*     [st |-> "ok" or "panic", calls |-> the calls made to the            *)
(*      distribution primitives of package dst, in order, ret |-> result]  *)
(* and there is one action per function, which draws the arguments (and    *)
(* the answers of the primitives) and stores the call and its outcome.     *)
(*                                                                         *)
(* float64 values are modelled as exact extended rationals <<n, d>>:       *)
(* d > 0 a finite value n/d in lowest terms, <<1,0>> +Inf, <<-1,0>> -Inf,  *)
(* <<0,0>> NaN.  Rounding error and the sign of zero are not modelled.     *)
(***************************************************************************)
EXTENDS Integers, Sequences, FiniteSets, TLC

VARIABLES op, args, env, out

vars == <<op, args, env, out>>

---------------------------------------------------------------------------
(* float64 arithmetic on extended rationals *)

Abs(x) == IF x < 0 THEN -x ELSE x

Sign(x) == IF x < 0 THEN -1 ELSE IF x > 0 THEN 1 ELSE 0

RECURSIVE GCD(_, _)
GCD(a, b) == IF b = 0 THEN a ELSE GCD(b, a % b)

\* n/d in lowest terms with d >= 0 (the gcd is computed once)
Norm(n, d) ==
    IF d = 0 THEN <<Sign(n), 0>>
    ELSE LET s == IF d < 0 THEN -1 ELSE 1
         IN  CHOOSE r \in {<<(s * n) \div g, (s * d) \div g>> :
                              g \in {GCD(Abs(n), Abs(d))}} : TRUE

R(n, d) == Norm(n, d)

FromInt(i) == <<i, 1>>

Zero == <<0, 1>>
One == <<1, 1>>
Half == <<1, 2>>
NaN == <<0, 0>>
PosInf == <<1, 0>>
NegInf == <<-1, 0>>

IsNaN(a) == a = NaN
IsFinite(a) == a[2] # 0

RNeg(a) == <<-a[1], a[2]>>

RAdd(a, b) ==
    IF IsNaN(a) \/ IsNaN(b) THEN NaN
    ELSE IF a[2] = 0 /\ b[2] = 0 THEN (IF a[1] = b[1] THEN a ELSE NaN)
    ELSE IF a[2] = 0 THEN a
    ELSE IF b[2] = 0 THEN b
    ELSE LET g == GCD(a[2], b[2])
         IN  Norm(a[1] * (b[2] \div g) + b[1] * (a[2] \div g), (a[2] \div g) * b[2])

RSub(a, b) == RAdd(a, RNeg(b))

\* every comparison with NaN is false
RLt(a, b) ==
    /\ ~IsNaN(a) /\ ~IsNaN(b)
    /\ IF a[2] = 0 /\ b[2] = 0 THEN a[1] < b[1]
       ELSE RSub(b, a)[1] > 0

RLe(a, b) ==
    /\ ~IsNaN(a) /\ ~IsNaN(b)
    /\ IF a[2] = 0 /\ b[2] = 0 THEN a[1] <= b[1]
       ELSE RSub(b, a)[1] >= 0

\* Inf * 0 = NaN; the factors are cancelled crosswise before they are multiplied
RMul(a, b) ==
    LET x == Norm(a[1], b[2])
        y == Norm(b[1], a[2])
    IN  IF a[2] = 0 \/ b[2] = 0 THEN <<Sign(a[1]) * Sign(b[1]), 0>>
        ELSE <<x[1] * y[1], x[2] * y[2]>>

\* 1/0 = +Inf, 1/Inf = 0, 1/NaN = NaN
RInv(a) == IF a[1] < 0 THEN <<-a[2], -a[1]>> ELSE <<a[2], a[1]>>

RDiv(a, b) == RMul(a, RInv(b))

RFloor(a) == IF IsFinite(a) THEN <<a[1] \div a[2], 1>> ELSE a

RCeil(a) == IF IsFinite(a) THEN <<-((-a[1]) \div a[2]), 1>> ELSE a

(* math.Sqrt.  A value with a square root in it is kept exactly as          *)
(* [q, c, rad], standing for q + c * sqrt(rad) with rad >= 0 finite.        *)

IsSquare(k) == \E i \in 0 .. k : i * i = k

ISqrt(k) == CHOOSE i \in 0 .. k : i * i = k

Lift(x) == [q |-> x, c |-> Zero, rad |-> Zero]

Sqrt(x) ==
    IF IsNaN(x) \/ RLt(x, Zero) THEN Lift(NaN)
    ELSE IF ~IsFinite(x) THEN Lift(PosInf)
    ELSE IF IsSquare(x[1]) /\ IsSquare(x[2]) THEN Lift(<<ISqrt(x[1]), ISqrt(x[2])>>)
    ELSE [q |-> Zero, c |-> One, rad |-> x]

\* s * s for s = Lift(x) or s = Sqrt(x)
SqSurd(s) == RAdd(RMul(s.q, s.q), RMul(RMul(s.c, s.c), s.rad))

\* the sign of a + c * sqrt(rad), rad >= 0; 2 when it is NaN
SurdSign(a, c, rad) ==
    IF IsNaN(a) \/ IsNaN(c) THEN 2
    ELSE IF c = Zero \/ rad = Zero THEN Sign(a[1])
    ELSE IF ~IsFinite(a) THEN Sign(a[1])
    ELSE IF Sign(a[1]) * Sign(c[1]) >= 0
         THEN (IF Sign(a[1]) # 0 THEN Sign(a[1]) ELSE Sign(c[1]))
    ELSE LET a2 == RMul(a, a)
             c2 == RMul(RMul(c, c), rad)
         IN  IF a2 = c2 THEN 0
             ELSE IF RLt(c2, a2) THEN Sign(a[1]) ELSE Sign(c[1])

\* a + t * s for s = Lift(x) or s = Sqrt(x)
SurdAffine(a, t, s) ==
    LET c == RMul(t, s.c)
    IN  IF s.c = Zero THEN Lift(RAdd(a, RMul(t, s.q)))
        ELSE IF t \in {PosInf, NegInf} /\ IsFinite(s.c) /\ IsFinite(s.q)
        THEN Lift(RAdd(a, RMul(t, FromInt(SurdSign(s.q, s.c, s.rad)))))
        ELSE [q |-> RAdd(a, RMul(t, s.q)), c |-> c,
              rad |-> IF c = Zero THEN Zero ELSE s.rad]

\* x <= y for two values over the same radicand
SurdLe(x, y) ==
    LET rad == IF y.c # Zero THEN y.rad ELSE x.rad
        a == RSub(y.q, x.q)
        c == RSub(y.c, x.c)
    IN  /\ ~IsNaN(x.q) /\ ~IsNaN(y.q)
        /\ IF ~IsFinite(x.q) \/ ~IsFinite(y.q) THEN RLe(x.q, y.q)
           ELSE SurdSign(a, c, rad) \in {0, 1}

---------------------------------------------------------------------------
(* outcomes of a call *)

Panic(cs) == [st |-> "panic", calls |-> cs, ret |-> <<>>]

Ok(cs, r) == [st |-> "ok", calls |-> cs, ret |-> r]

\* a primitive bound to its parameters (the closure dst returns)
Bind(f, ps) == [prim |-> f, par |-> ps, at |-> <<>>]

\* a primitive evaluated at a point
Eval(f, ps, x) == [prim |-> f, par |-> ps, at |-> <<x>>]

---------------------------------------------------------------------------
(* package dst: the answers of the distribution primitives.  A quantile    *)
(* primitive is any non-decreasing function of the probability on (0,1);   *)
(* a call draws one such function over the probabilities it can ask for.   *)

\* the probabilities inside (0,1) a call can ask a quantile for
PGrid == {R(1, 8), R(1, 4), R(1, 2), R(3, 4), R(7, 8)}

Monotone(S, V) == {f \in [S -> V] : \A x, y \in S : RLe(x, y) => RLe(f[x], f[y])}

GammaVals == {Zero, One, FromInt(2)}

GammaQtlOracles == Monotone(PGrid, GammaVals)

\* the quantile at p of oracle q; lowEnd is the lower end of the support
QtlAt(q, p, lowEnd) ==
    IF p \in DOMAIN q THEN q[p]
    ELSE IF p = Zero THEN lowEnd
    ELSE IF p = One THEN PosInf
    ELSE NaN

ProbVals == {Zero, R(1, 4), Half, One}

---------------------------------------------------------------------------
(* poisson.go *)

PoissonLambdaPDFFPri(sumK, n) ==
    IF sumK < 0 \/ n <= 0 THEN Panic(<<>>)
    ELSE LET r1 == RAdd(FromInt(sumK), One)
             v1 == FromInt(n)
             f == Bind("GammaPDF", <<r1, RDiv(One, v1)>>)
         IN  Ok(<<f>>, f)

PoissonLambdaPDFJPri(sumK, n) ==
    IF sumK < 0 \/ n <= 0 THEN Panic(<<>>)
    ELSE LET r1 == RAdd(FromInt(sumK), Half)
             v1 == FromInt(n)
             f == Bind("GammaPDF", <<r1, RDiv(One, v1)>>)
         IN  Ok(<<f>>, f)

PoissonLambdaPDFGPri(sumK, n, r, v) ==
    IF sumK < 0 \/ n <= 0 THEN Panic(<<>>)
    ELSE IF RLt(r, Zero) \/ RLt(v, Zero) THEN Panic(<<>>)
    ELSE LET r1 == RAdd(r, FromInt(sumK))
             v1 == RAdd(v, FromInt(n))
             f == Bind("GammaPDF", <<r1, RDiv(One, v1)>>)
         IN  Ok(<<f>>, f)

PoissonLambdaCDFFPri(sumK, n) ==
    IF sumK < 0 \/ n <= 0 THEN Panic(<<>>)
    ELSE LET r1 == RAdd(FromInt(sumK), One)
             v1 == FromInt(n)
             f == Bind("GammaCDF", <<r1, RDiv(One, v1)>>)
         IN  Ok(<<f>>, f)


\* PoissonLambdaCDFJPri with the flat prior's shape 1 pasted in for 0.5
PoissonLambdaCDFJPri_FlatShape(sumK, n) ==
    IF sumK < 0 \/ n <= 0 THEN Panic(<<>>)
    ELSE LET r1 == RAdd(FromInt(sumK), One)
             v1 == FromInt(n)
             f == Bind("GammaCDF", <<r1, RDiv(One, v1)>>)
         IN  Ok(<<f>>, f)

PoissonLambdaCDFJPri(sumK, n) ==
    IF sumK < 0 \/ n <= 0 THEN Panic(<<>>)
    ELSE LET r1 == RAdd(FromInt(sumK), Half)
             v1 == FromInt(n)
             f == Bind("GammaCDF", <<r1, RDiv(One, v1)>>)
         IN  Ok(<<f>>, f)

PoissonLambdaCDFGPri(sumK, n, r, v) ==
    IF sumK < 0 \/ n <= 0 THEN Panic(<<>>)
    ELSE IF RLt(r, Zero) \/ RLt(v, Zero) THEN Panic(<<>>)
    ELSE LET r1 == RAdd(r, FromInt(sumK))
             v1 == RAdd(v, FromInt(n))
             f == Bind("GammaCDF", <<r1, RDiv(One, v1)>>)
         IN  Ok(<<f>>, f)

PoissonLambdaQtlFPri(sumK, n) ==
    IF sumK < 0 \/ n <= 0 THEN Panic(<<>>)
    ELSE LET r1 == RAdd(FromInt(sumK), One)
             v1 == FromInt(n)
             f == Bind("GammaQtl", <<r1, RDiv(One, v1)>>)
         IN  Ok(<<f>>, f)

PoissonLambdaQtlJPri(sumK, n) ==
    IF sumK < 0 \/ n <= 0 THEN Panic(<<>>)
    ELSE LET r1 == RAdd(FromInt(sumK), Half)
             v1 == FromInt(n)
             f == Bind("GammaQtl", <<r1, RDiv(One, v1)>>)
         IN  Ok(<<f>>, f)

PoissonLambdaQtlGPri(sumK, n, r, v) ==
    IF sumK < 0 \/ n <= 0 THEN Panic(<<>>)
    ELSE IF RLt(r, Zero) \/ RLt(v, Zero) THEN Panic(<<>>)
    ELSE LET r1 == RAdd(r, FromInt(sumK))
             v1 == RAdd(v, FromInt(n))
             f == Bind("GammaQtl", <<r1, RDiv(One, v1)>>)
         IN  Ok(<<f>>, f)

\* x is the variate GammaNext returns
PoissonLambdaNextFPri(sumK, n, x) ==
    IF sumK < 0 \/ n <= 0 THEN Panic(<<>>)
    ELSE LET r1 == RAdd(FromInt(sumK), One)
             v1 == FromInt(n)
         IN  Ok(<<Bind("GammaNext", <<r1, RDiv(One, v1)>>)>>, x)

PoissonLambdaNextJPri(sumK, n, x) ==
    IF sumK < 0 \/ n <= 0 THEN Panic(<<>>)
    ELSE LET r1 == RAdd(FromInt(sumK), Half)
             v1 == FromInt(n)
         IN  Ok(<<Bind("GammaNext", <<r1, RDiv(One, v1)>>)>>, x)

PoissonLambdaNextGPri(sumK, n, r, v, x) ==
    IF sumK < 0 \/ n <= 0 THEN Panic(<<>>)
    ELSE IF RLt(r, Zero) \/ RLt(v, Zero) THEN Panic(<<>>)
    ELSE LET r1 == RAdd(r, FromInt(sumK))
             v1 == RAdd(v, FromInt(n))
         IN  Ok(<<Bind("GammaNext", <<r1, RDiv(One, v1)>>)>>, x)

PoissonLambdaPostMean(sumK, n, r, v) ==
    LET r1 == RAdd(FromInt(sumK), One)
        v1 == One
    IN  Ok(<<>>, RDiv(r1, v1))

\* q is the quantile function GammaQtl returns
PoissonLambdaIQR(sumK, n, r, v, q) ==
    LET qf == PoissonLambdaQtlGPri(sumK, n, r, v)
    IN  IF qf.st = "panic" THEN qf
        ELSE LET q1 == QtlAt(q, R(1, 4), Zero)
                 q3 == QtlAt(q, R(3, 4), Zero)
             IN  Ok(qf.calls \o <<Eval("GammaQtl", qf.ret.par, R(1, 4)),
                                  Eval("GammaQtl", qf.ret.par, R(3, 4))>>,
                    RSub(q3, q1))

PoissonLambdaCrIGPri(sumK, n, r, v, alpha, q) ==
    LET qf == PoissonLambdaQtlGPri(sumK, n, r, v)
    IN  IF qf.st = "panic" THEN qf
        ELSE LET pLo == RDiv(alpha, FromInt(2))
                 pHi == RSub(One, RDiv(alpha, FromInt(2)))
                 lo == QtlAt(q, pLo, Zero)
                 hi == QtlAt(q, pHi, Zero)
             IN  Ok(qf.calls \o <<Eval("GammaQtl", qf.ret.par, pLo),
                                  Eval("GammaQtl", qf.ret.par, pHi)>>,
                    [lo |-> lo, hi |-> hi])

\* p0 is the value the closure of GammaCDF returns at lambda0
PoissonLambdaOneSidedTst(sumK, n, r, v, alpha, lambda0, p0) ==
    LET cdf == PoissonLambdaCDFGPri(sumK, n, r, v)
    IN  IF cdf.st = "panic" THEN cdf
        ELSE Ok(cdf.calls \o <<Eval("GammaCDF", cdf.ret.par, lambda0)>>,
                RLt(p0, alpha))

PoissonLambdaOneSidedOdds(sumK, n, r, v, lambda0, p0) ==
    LET cdf == PoissonLambdaCDFGPri(sumK, n, r, v)
    IN  IF cdf.st = "panic" THEN cdf
        ELSE Ok(cdf.calls \o <<Eval("GammaCDF", cdf.ret.par, lambda0)>>,
                RDiv(p0, RSub(One, p0)))


\* PoissonLambdaTwoSidedTst rejecting lambda0 on the ends of the interval too
PoissonLambdaTwoSidedTst_Inclusive(sumK, n, r, v, alpha, lambda0, q) ==
    LET ci == PoissonLambdaCrIGPri(sumK, n, r, v, alpha, q)
    IN  IF ci.st = "panic" THEN ci
        ELSE LET low == ci.ret.lo
                 high == ci.ret.hi
             IN  Ok(ci.calls, RLe(lambda0, low) \/ RLe(high, lambda0))

PoissonLambdaTwoSidedTst(sumK, n, r, v, alpha, lambda0, q) ==
    LET ci == PoissonLambdaCrIGPri(sumK, n, r, v, alpha, q)
    IN  IF ci.st = "panic" THEN ci
        ELSE LET low == ci.ret.lo
                 high == ci.ret.hi
             IN  Ok(ci.calls, RLt(lambda0, low) \/ RLt(high, lambda0))

---------------------------------------------------------------------------
(* normal_mu.go *)

NormVals == {FromInt(-1), Zero, One}

NormalQtlOracles == Monotone(PGrid, NormVals)

LikeVals == {Zero, Half, One}

\* math.Exp returns 0 for every argument below about -745.13
ExpUnderflow == 746

\* math.Exp on the exponents X it is asked: NaN for NaN, 0 from the underflow
\* on (and for -Inf), 1 at 0, otherwise positive; non-decreasing
ExpOracles(X) ==
    {ex \in [X -> LikeVals \cup {NaN}] :
        /\ \A x \in X :
              IF IsNaN(x) THEN ex[x] = NaN
              ELSE /\ ex[x] # NaN
                   /\ ex[x] = Zero <=> RLe(x, FromInt(-ExpUnderflow))
                   /\ x = Zero => ex[x] = One
        /\ \A x1, x2 \in X :
              (~IsNaN(x1) /\ ~IsNaN(x2) /\ RLe(x1, x2)) => RLe(ex[x1], ex[x2])}

\* the exponent -z^2/2 of the standard Normal density at z
ZExp(z) == RNeg(RDiv(RMul(z, z), FromInt(2)))

\* ZPDFAt on the z-scores Z it is asked: NaN for NaN, 0 where the density is
\* below the smallest float64 (and for +-Inf), otherwise positive; symmetric and
\* non-increasing in |z|
ZPDFOracles(Z) ==
    {phi \in [Z -> LikeVals \cup {NaN}] :
        /\ \A z \in Z :
              IF IsNaN(z) THEN phi[z] = NaN
              ELSE /\ phi[z] # NaN
                   /\ phi[z] = Zero <=> RLe(ZExp(z), FromInt(-ExpUnderflow))
        /\ \A z1, z2 \in Z :
              (~IsNaN(z1) /\ ~IsNaN(z2) /\ RLe(ZExp(z1), ZExp(z2)))
                  => RLe(phi[z1], phi[z2])}

RECURSIVE SumTo(_, _)
SumTo(xs, k) == IF k = 0 THEN Zero ELSE RAdd(SumTo(xs, k - 1), xs[k])

\* the argument ZPDFAt is given for candidate i
ZOf(y, sigma, mu, i) == RDiv(RSub(y, mu[i]), sigma)

\* phi is the standard Normal density ZPDFAt, a function on the z it is asked
NormMuSinglePMFDPri(y, sigma, mu, muPri, phi) ==
    LET nPoss == Len(mu)
    IN  IF Len(muPri) # nPoss THEN Panic(<<>>)
        ELSE LET z == [i \in 1 .. nPoss |-> ZOf(y, sigma, mu, i)]
                 prod == [i \in 1 .. nPoss |-> RMul(muPri[i], phi[z[i]])]
                 sum == SumTo(prod, nPoss)
             IN  Ok([i \in 1 .. nPoss |-> Eval("ZPDFAt", <<>>, z[i])],
                    [i \in 1 .. nPoss |-> RDiv(prod[i], sum)])

\* the argument math.Exp is given for candidate i
ExpArgOf(nObs, ybar, sigma, mu, i) ==
    LET sigma2 == RMul(sigma, sigma)
        delta == RSub(ybar, mu[i])
        n == FromInt(nObs)
    IN  RMul(RMul(RDiv(FromInt(-1), RDiv(RMul(FromInt(2), sigma2), n)), delta), delta)


\* NormMuPMFDPri checking only that there are enough prior masses
NormMuPMFDPri_ShortOnly(nObs, ybar, sigma, mu, muPri, ex) ==
    LET nPoss == Len(mu)
    IN  IF Len(muPri) < nPoss THEN Panic(<<>>)
        ELSE LET x == [i \in 1 .. nPoss |-> ExpArgOf(nObs, ybar, sigma, mu, i)]
                 prod == [i \in 1 .. nPoss |-> RMul(muPri[i], ex[x[i]])]
                 sum == SumTo(prod, nPoss)
             IN  Ok([i \in 1 .. nPoss |-> Eval("Exp", <<>>, x[i])],
                    [i \in 1 .. nPoss |-> RDiv(prod[i], sum)])

\* ex is math.Exp, a function on the exponents it is asked
NormMuPMFDPri(nObs, ybar, sigma, mu, muPri, ex) ==
    LET nPoss == Len(mu)
    IN  IF Len(muPri) # nPoss THEN Panic(<<>>)
        ELSE LET x == [i \in 1 .. nPoss |-> ExpArgOf(nObs, ybar, sigma, mu, i)]
                 prod == [i \in 1 .. nPoss |-> RMul(muPri[i], ex[x[i]])]
                 sum == SumTo(prod, nPoss)
             IN  Ok([i \in 1 .. nPoss |-> Eval("Exp", <<>>, x[i])],
                    [i \in 1 .. nPoss |-> RDiv(prod[i], sum)])

NormMuPostMean(nObs, ybar, sigma, muPri, sigmaPri) ==
    LET sigma2 == RMul(sigma, sigma)
        n == FromInt(nObs)
        sigma2Pri == RMul(sigmaPri, sigmaPri)
        muPost == RAdd(RDiv(RDiv(muPri, sigma2Pri),
                       RAdd(RDiv(n, sigma2), RDiv(One, sigma2Pri))),
                  RDiv(RMul(ybar, RDiv(n, sigma2)),
                       RAdd(RDiv(n, sigma2), RDiv(One, sigma2Pri))))
    IN  Ok(<<>>, muPost)

NormMuPostStd(nObs, sigma, muPri, sigmaPri) ==
    LET sigma2 == RMul(sigma, sigma)
        n == FromInt(nObs)
        sigma2Pri == RMul(sigmaPri, sigmaPri)
        sigma2Post == RDiv(RMul(sigma2, sigma2Pri), RAdd(sigma2, RMul(n, sigma2Pri)))
    IN  Ok(<<>>, Sqrt(sigma2Post))

\* z is the quantile function of NormalQtlFor for the parameters given
NormMuSingleQtlFPri(y, sigma, p, z) ==
    LET muPost == y
        sigmaPost == Lift(sigma)
    IN  Ok(<<Eval("NormalQtlFor", <<muPost, sigmaPost>>, p)>>, QtlAt(z, p, NegInf))

NormMuQtlFPri(nObs, ybar, sigma, p, z) ==
    IF RLe(sigma, Zero) THEN Panic(<<>>)
    ELSE LET n == FromInt(nObs)
             sigma2 == RMul(sigma, sigma)
             muPost == ybar
             sigma2Post == RDiv(sigma2, n)
             sigmaPost == Sqrt(sigma2Post)
         IN  Ok(<<Eval("NormalQtlFor", <<muPost, sigmaPost>>, p)>>,
                QtlAt(z, p, NegInf))

\* NormMuSingleQtlNPri with the weights of the prior mean and of the observation
\* exchanged
NormMuSingleQtlNPri_WeightsSwapped(y, sigma, muPri, sigmaPri, p, z) ==
    IF RLe(sigma, Zero) THEN Panic(<<>>)
    ELSE LET sigma2 == RMul(sigma, sigma)
             sigma2Pri == RMul(sigmaPri, sigmaPri)
             muPost == RDiv(RAdd(RMul(sigma2Pri, muPri), RMul(sigma2, y)),
                            RAdd(sigma2, sigma2Pri))
             sigma2Post == RDiv(RMul(sigma2, sigma2Pri), RAdd(sigma2, sigma2Pri))
             sigmaPost == Sqrt(sigma2Post)
         IN  Ok(<<Eval("NormalQtlFor", <<muPost, sigmaPost>>, p)>>,
                QtlAt(z, p, NegInf))

NormMuSingleQtlNPri(y, sigma, muPri, sigmaPri, p, z) ==
    IF RLe(sigma, Zero) THEN Panic(<<>>)
    ELSE LET sigma2 == RMul(sigma, sigma)
             sigma2Pri == RMul(sigmaPri, sigmaPri)
             muPost == RDiv(RAdd(RMul(sigma2, muPri), RMul(sigma2Pri, y)),
                            RAdd(sigma2, sigma2Pri))
             sigma2Post == RDiv(RMul(sigma2, sigma2Pri), RAdd(sigma2, sigma2Pri))
             sigmaPost == Sqrt(sigma2Post)
         IN  Ok(<<Eval("NormalQtlFor", <<muPost, sigmaPost>>, p)>>,
                QtlAt(z, p, NegInf))

NormMuQtlNPri(nObs, ybar, sigma, muPri, sigmaPri, p, z) ==
    LET n == FromInt(nObs)
        sigma2 == RMul(sigma, sigma)
        sigma2Pri == RMul(sigmaPri, sigmaPri)
        sigma2Post == RDiv(RMul(sigma2, sigma2Pri), RAdd(sigma2, RMul(n, sigma2Pri)))
        muPost == RAdd(RDiv(RDiv(muPri, sigma2Pri),
                       RAdd(RDiv(n, sigma2), RDiv(One, sigma2Pri))),
                  RDiv(RMul(ybar, RDiv(n, sigma2)),
                       RAdd(RDiv(n, sigma2), RDiv(One, sigma2Pri))))
        sigmaPost == Sqrt(sigma2Post)
    IN  Ok(<<Eval("NormalQtlFor", <<muPost, sigmaPost>>, p)>>, QtlAt(z, p, NegInf))


\* NormMuCrINPriKnown with the two tail probabilities exchanged
NormMuCrINPriKnown_Swapped(nObs, ybar, sigma, muPri, sigmaPri, alpha, z) ==
    LET n == FromInt(nObs)
        sigma2 == RMul(sigma, sigma)
        sigma2Pri == RMul(sigmaPri, sigmaPri)
        sigma2Post == RDiv(RMul(sigma2, sigma2Pri), RAdd(sigma2, RMul(n, sigma2Pri)))
        muPost == RAdd(RDiv(RDiv(muPri, sigma2Pri),
                       RAdd(RDiv(n, sigma2), RDiv(One, sigma2Pri))),
                  RDiv(RMul(ybar, RDiv(n, sigma2)),
                       RAdd(RDiv(n, sigma2), RDiv(One, sigma2Pri))))
        sigmaPost == Sqrt(sigma2Post)
        pLo == RSub(One, RDiv(alpha, FromInt(2)))
        pHi == RDiv(alpha, FromInt(2))
    IN  Ok(<<Eval("NormalQtlFor", <<muPost, sigmaPost>>, pLo),
             Eval("NormalQtlFor", <<muPost, sigmaPost>>, pHi)>>,
           [lo |-> QtlAt(z, pLo, NegInf), hi |-> QtlAt(z, pHi, NegInf)])

NormMuCrINPriKnown(nObs, ybar, sigma, muPri, sigmaPri, alpha, z) ==
    LET n == FromInt(nObs)
        sigma2 == RMul(sigma, sigma)
        sigma2Pri == RMul(sigmaPri, sigmaPri)
        sigma2Post == RDiv(RMul(sigma2, sigma2Pri), RAdd(sigma2, RMul(n, sigma2Pri)))
        muPost == RAdd(RDiv(RDiv(muPri, sigma2Pri),
                       RAdd(RDiv(n, sigma2), RDiv(One, sigma2Pri))),
                  RDiv(RMul(ybar, RDiv(n, sigma2)),
                       RAdd(RDiv(n, sigma2), RDiv(One, sigma2Pri))))
        sigmaPost == Sqrt(sigma2Post)
        pLo == RDiv(alpha, FromInt(2))
        pHi == RSub(One, RDiv(alpha, FromInt(2)))
    IN  Ok(<<Eval("NormalQtlFor", <<muPost, sigmaPost>>, pLo),
             Eval("NormalQtlFor", <<muPost, sigmaPost>>, pHi)>>,
           [lo |-> QtlAt(z, pLo, NegInf), hi |-> QtlAt(z, pHi, NegInf)])

NormMuCrIFPriKnown(nObs, ybar, sigma, alpha, z) ==
    LET n == FromInt(nObs)
        muPost == ybar
        sigma2Post == RDiv(RMul(sigma, sigma), n)
        sigmaPost == Sqrt(sigma2Post)
        pLo == RDiv(alpha, FromInt(2))
        pHi == RSub(One, RDiv(alpha, FromInt(2)))
    IN  Ok(<<Eval("NormalQtlFor", <<muPost, sigmaPost>>, pLo),
             Eval("NormalQtlFor", <<muPost, sigmaPost>>, pHi)>>,
           [lo |-> QtlAt(z, pLo, NegInf), hi |-> QtlAt(z, pHi, NegInf)])

---------------------------------------------------------------------------
(* normal_diff.go *)

TVals == {FromInt(-2), FromInt(-1), Zero, One, FromInt(2)}

\* Student's t quantile functions: non-decreasing, 0 at 1/2, negative below it
\* and positive above it
StudentsTQtlOracles ==
    {t \in Monotone(PGrid, TVals) :
        \A p \in PGrid : /\ RLt(p, Half) => RLt(t[p], Zero)
                         /\ p = Half => t[p] = Zero
                         /\ RLt(Half, p) => RLt(Zero, t[p])}


\* the constructors of the known-variance path return the function the
\* primitive returns for the parameters (mudPost, sigmadPost)
NormalMuDiffPDFNPriKn(nObs1, nObs2, ybar1, ybar2, sigma1, sigma2, mu1Pri, sigma1Pri, mu2Pri, sigma2Pri) ==
    LET mu1Post == NormMuPostMean(nObs1, ybar1, sigma1, mu1Pri, sigma1Pri).ret
        sigma1Post == NormMuPostStd(nObs1, sigma1, mu1Pri, sigma1Pri).ret
        mu2Post == NormMuPostMean(nObs2, ybar2, sigma2, mu2Pri, sigma2Pri).ret
        sigma2Post == NormMuPostStd(nObs2, sigma2, mu2Pri, sigma2Pri).ret
        mudPost == RSub(mu1Post, mu2Post)
        sigmadPost == Sqrt(RAdd(SqSurd(sigma1Post), SqSurd(sigma2Post)))
    IN  LET f == Bind("NormalPDF", <<mudPost, sigmadPost>>)
        IN  Ok(<<f>>, f)

NormalMuDiffCDFNPriKn(nObs1, nObs2, ybar1, ybar2, sigma1, sigma2, mu1Pri, sigma1Pri, mu2Pri, sigma2Pri) ==
    LET mu1Post == NormMuPostMean(nObs1, ybar1, sigma1, mu1Pri, sigma1Pri).ret
        sigma1Post == NormMuPostStd(nObs1, sigma1, mu1Pri, sigma1Pri).ret
        mu2Post == NormMuPostMean(nObs2, ybar2, sigma2, mu2Pri, sigma2Pri).ret
        sigma2Post == NormMuPostStd(nObs2, sigma2, mu2Pri, sigma2Pri).ret
        mudPost == RSub(mu1Post, mu2Post)
        sigmadPost == Sqrt(RAdd(SqSurd(sigma1Post), SqSurd(sigma2Post)))
    IN  LET f == Bind("NormalCDF", <<mudPost, sigmadPost>>)
        IN  Ok(<<f>>, f)

\* NormalMuDiffQtlNPriKn taking the variance of sample 1 for both samples
NormalMuDiffQtlNPriKn_FirstVarTwice(nObs1, nObs2, ybar1, ybar2, sigma1, sigma2, mu1Pri, sigma1Pri, mu2Pri, sigma2Pri) ==
    LET mu1Post == NormMuPostMean(nObs1, ybar1, sigma1, mu1Pri, sigma1Pri).ret
        sigma1Post == NormMuPostStd(nObs1, sigma1, mu1Pri, sigma1Pri).ret
        mu2Post == NormMuPostMean(nObs2, ybar2, sigma2, mu2Pri, sigma2Pri).ret
        sigma2Post == NormMuPostStd(nObs2, sigma2, mu2Pri, sigma2Pri).ret
        mudPost == RSub(mu1Post, mu2Post)
        sigmadPost == Sqrt(RAdd(SqSurd(sigma1Post), SqSurd(sigma1Post)))
    IN  LET f == Bind("NormalQtl", <<mudPost, sigmadPost>>)
        IN  Ok(<<f>>, f)

NormalMuDiffQtlNPriKn(nObs1, nObs2, ybar1, ybar2, sigma1, sigma2, mu1Pri, sigma1Pri, mu2Pri, sigma2Pri) ==
    LET mu1Post == NormMuPostMean(nObs1, ybar1, sigma1, mu1Pri, sigma1Pri).ret
        sigma1Post == NormMuPostStd(nObs1, sigma1, mu1Pri, sigma1Pri).ret
        mu2Post == NormMuPostMean(nObs2, ybar2, sigma2, mu2Pri, sigma2Pri).ret
        sigma2Post == NormMuPostStd(nObs2, sigma2, mu2Pri, sigma2Pri).ret
        mudPost == RSub(mu1Post, mu2Post)
        sigmadPost == Sqrt(RAdd(SqSurd(sigma1Post), SqSurd(sigma2Post)))
    IN  LET f == Bind("NormalQtl", <<mudPost, sigmadPost>>)
        IN  Ok(<<f>>, f)

NormalMuDiffMomentsNPriKn(nObs1, nObs2, ybar1, ybar2, sigma1, sigma2, mu1Pri, sigma1Pri, mu2Pri, sigma2Pri) ==
    LET mu1Post == NormMuPostMean(nObs1, ybar1, sigma1, mu1Pri, sigma1Pri).ret
        sigma1Post == NormMuPostStd(nObs1, sigma1, mu1Pri, sigma1Pri).ret
        mu2Post == NormMuPostMean(nObs2, ybar2, sigma2, mu2Pri, sigma2Pri).ret
        sigma2Post == NormMuPostStd(nObs2, sigma2, mu2Pri, sigma2Pri).ret
        mudPost == RSub(mu1Post, mu2Post)
        sigmadPost == Sqrt(RAdd(SqSurd(sigma1Post), SqSurd(sigma2Post)))
    IN  Ok(<<>>, <<mudPost, sigmadPost>>)


\* satterthwaitenu comparing with < : a tie goes to the ceiling
satterthwaitenu_StrictLess(estvar1, nObs1, estvar2, nObs2) ==
    LET n1 == FromInt(nObs1)
        n2 == FromInt(nObs2)
        f1 == RMul(RAdd(RDiv(estvar1, n1), RDiv(estvar2, n2)),
                   RAdd(RDiv(estvar1, n1), RDiv(estvar2, n2)))
        f2 == RDiv(RMul(RDiv(estvar1, n1), RDiv(estvar1, n1)), RAdd(n1, One))
        f3 == RDiv(RMul(RDiv(estvar2, n2), RDiv(estvar2, n2)), RAdd(n2, One))
        v == RDiv(f1, RAdd(f2, f3))
    IN  IF RLt(RSub(v, RFloor(v)), RSub(RCeil(v), v)) THEN RFloor(v) ELSE RCeil(v)

satterthwaitenu(estvar1, nObs1, estvar2, nObs2) ==
    LET n1 == FromInt(nObs1)
        n2 == FromInt(nObs2)
        f1 == RMul(RAdd(RDiv(estvar1, n1), RDiv(estvar2, n2)),
                   RAdd(RDiv(estvar1, n1), RDiv(estvar2, n2)))
        f2 == RDiv(RMul(RDiv(estvar1, n1), RDiv(estvar1, n1)), RAdd(n1, One))
        f3 == RDiv(RMul(RDiv(estvar2, n2), RDiv(estvar2, n2)), RAdd(n2, One))
        v == RDiv(f1, RAdd(f2, f3))
    IN  IF RLe(RSub(v, RFloor(v)), RSub(RCeil(v), v)) THEN RFloor(v) ELSE RCeil(v)

\* the value v that satterthwaitenu rounds
satterthwaiteV(estvar1, nObs1, estvar2, nObs2) ==
    LET n1 == FromInt(nObs1)
        n2 == FromInt(nObs2)
        f1 == RMul(RAdd(RDiv(estvar1, n1), RDiv(estvar2, n2)),
                   RAdd(RDiv(estvar1, n1), RDiv(estvar2, n2)))
        f2 == RDiv(RMul(RDiv(estvar1, n1), RDiv(estvar1, n1)), RAdd(n1, One))
        f3 == RDiv(RMul(RDiv(estvar2, n2), RDiv(estvar2, n2)), RAdd(n2, One))
    IN  RDiv(f1, RAdd(f2, f3))

\* the closure returned, called with p; p0 is the outer argument p, which the
\* closure's own parameter shadows; t is the quantile function StudentsTQtl(nu)
\* returns
NormalMuDiffQtlNPriUn(nObs1, nObs2, ybar1, ybar2, s1, s2, mu1Pri, sigma1Pri, mu2Pri, sigma2Pri, p0, p, t) ==
    LET mu1Post == NormMuPostMean(nObs1, ybar1, s1, mu1Pri, sigma1Pri).ret
        sigma1Post == NormMuPostStd(nObs1, s1, mu1Pri, sigma1Pri).ret
        mu2Post == NormMuPostMean(nObs2, ybar2, s2, mu2Pri, sigma2Pri).ret
        sigma2Post == NormMuPostStd(nObs2, s2, mu2Pri, sigma2Pri).ret
        mudPost == RSub(mu1Post, mu2Post)
        nu == satterthwaitenu(RMul(s1, s1), nObs1, RMul(s2, s2), nObs2)
        alpha == RSub(One, RMul(FromInt(2), p))
        a == RDiv(alpha, FromInt(2))
        tq == QtlAt(t, a, NegInf)
        sd == Sqrt(RAdd(SqSurd(sigma1Post), SqSurd(sigma2Post)))
        q == IF RLt(p, Half) THEN SurdAffine(mudPost, RNeg(tq), sd)
             ELSE SurdAffine(mudPost, tq, sd)
    IN  Ok(<<Bind("StudentsTQtl", <<nu>>), Eval("StudentsTQtl", <<nu>>, a)>>, q)

\* the closure returned, called with alpha; alpha0 is the unused outer argument;
\* t is the quantile function StudentsTQtl(nu) returns
NormalMuDiffCrINPriUn(nObs1, nObs2, ybar1, ybar2, s1, s2, mu1Pri, sigma1Pri, mu2Pri, sigma2Pri, alpha0, alpha, t) ==
    LET mu1Post == NormMuPostMean(nObs1, ybar1, s1, mu1Pri, sigma1Pri).ret
        sigma1Post == NormMuPostStd(nObs1, s1, mu1Pri, sigma1Pri).ret
        mu2Post == NormMuPostMean(nObs2, ybar2, s2, mu2Pri, sigma2Pri).ret
        sigma2Post == NormMuPostStd(nObs2, s2, mu2Pri, sigma2Pri).ret
        mudPost == RSub(mu1Post, mu2Post)
        nu == satterthwaitenu(RMul(s1, s1), nObs1, RMul(s2, s2), nObs2)
        p == RDiv(alpha, FromInt(2))
        tq == QtlAt(t, p, NegInf)
        sd == Sqrt(RAdd(SqSurd(sigma1Post), SqSurd(sigma2Post)))
    IN  Ok(<<Bind("StudentsTQtl", <<nu>>), Eval("StudentsTQtl", <<nu>>, p),
             Eval("StudentsTQtl", <<nu>>, p)>>,
           [lo |-> SurdAffine(mudPost, RNeg(tq), sd),
            hi |-> SurdAffine(mudPost, tq, sd)])

NormalMuDiffCrIFPriUn(nObs1, nObs2, ybar1, ybar2, s1, s2, mu1Pri, sigma1Pri, mu2Pri, sigma2Pri, alpha0, alpha, t) ==
    LET mu1Post == NormMuPostMean(nObs1, ybar1, s1, mu1Pri, sigma1Pri).ret
        mu2Post == NormMuPostMean(nObs2, ybar2, s2, mu2Pri, sigma2Pri).ret
        mudPost == RSub(mu1Post, mu2Post)
        nu == satterthwaitenu(RMul(s1, s1), nObs1, RMul(s2, s2), nObs2)
        p == RDiv(alpha, FromInt(2))
        tq == QtlAt(t, p, NegInf)
        sd == Sqrt(RAdd(RMul(s1, s1), RMul(s2, s2)))
    IN  Ok(<<Bind("StudentsTQtl", <<nu>>), Eval("StudentsTQtl", <<nu>>, p),
             Eval("StudentsTQtl", <<nu>>, p)>>,
           [lo |-> SurdAffine(mudPost, RNeg(tq), sd),
            hi |-> SurdAffine(mudPost, tq, sd)])

---------------------------------------------------------------------------
(* bounds of the arguments drawn *)

MaxSumK == 1
MaxN == 2

SumKs == -1 .. MaxSumK
Ns == -1 .. MaxN
PriorPars == {FromInt(-1), Zero, One}
Alphas == {Zero, R(1, 4), Half, One, R(3, 2)}
Lambda0s == {Zero, One, FromInt(2)}

MaxObs == 2
MaxLen == 2

Obs == 0 .. MaxObs
Ys == {Zero, One}
Sigmas == {FromInt(-1), Zero, One, FromInt(2)}
SigmaPris == {FromInt(-1), Zero, One}
SingleSigmaPris == SigmaPris \cup {FromInt(2)}
MuPris == {Zero, One}
Probs == {Zero, R(1, 4), Half, R(3, 4), One, R(3, 2)}

\* the sequences over S of length 0 .. MaxLen
SeqsUpTo(S) == UNION {[1 .. k -> S] : k \in 0 .. MaxLen}

MuVals == {Zero, One}
MassVals == {Zero, Half, One}
PMFSigmas == {Zero, One}
PMFYs == {Zero, One, FromInt(40)}

EstVars == {Zero, One, FromInt(2), FromInt(4), FromInt(9)}
SatObs == Obs \cup {4, 10, 15}
DiffObs == 1 .. MaxObs
DiffSds == {One, FromInt(2)}
DiffProbs == {Zero, R(1, 4), R(3, 8), Half, R(3, 4), One}
OuterProbs == {Zero, Half}

---------------------------------------------------------------------------
(* one action per function: a call with drawn arguments *)

Init ==
    /\ op = "none"
    /\ args = <<>>
    /\ env = <<>>
    /\ out = [st |-> "idle", calls |-> <<>>, ret |-> <<>>]

\* The functions are pure and share no state, so calls are independent of one
\* another: a behaviour observes one call (every action starts from op = "none").
Call(name, a, e, o) ==
    /\ op' = name
    /\ args' = a
    /\ env' = e
    /\ out' = o

CallPoissonLambdaPDFFPri ==
    /\ op = "none"
    /\ \E sumK \in SumKs, n \in Ns :
        Call("PoissonLambdaPDFFPri", [sumK |-> sumK, n |-> n], <<>>,
             PoissonLambdaPDFFPri(sumK, n))

CallPoissonLambdaPDFJPri ==
    /\ op = "none"
    /\ \E sumK \in SumKs, n \in Ns :
        Call("PoissonLambdaPDFJPri", [sumK |-> sumK, n |-> n], <<>>,
             PoissonLambdaPDFJPri(sumK, n))

CallPoissonLambdaPDFGPri ==
    /\ op = "none"
    /\ \E sumK \in SumKs, n \in Ns, r \in PriorPars, v \in PriorPars :
        Call("PoissonLambdaPDFGPri", [sumK |-> sumK, n |-> n, r |-> r, v |-> v], <<>>,
             PoissonLambdaPDFGPri(sumK, n, r, v))

CallPoissonLambdaCDFFPri ==
    /\ op = "none"
    /\ \E sumK \in SumKs, n \in Ns :
        Call("PoissonLambdaCDFFPri", [sumK |-> sumK, n |-> n], <<>>,
             PoissonLambdaCDFFPri(sumK, n))

CallPoissonLambdaCDFJPri ==
    /\ op = "none"
    /\ \E sumK \in SumKs, n \in Ns :
        Call("PoissonLambdaCDFJPri", [sumK |-> sumK, n |-> n], <<>>,
             PoissonLambdaCDFJPri(sumK, n))

CallPoissonLambdaCDFGPri ==
    /\ op = "none"
    /\ \E sumK \in SumKs, n \in Ns, r \in PriorPars, v \in PriorPars :
        Call("PoissonLambdaCDFGPri", [sumK |-> sumK, n |-> n, r |-> r, v |-> v], <<>>,
             PoissonLambdaCDFGPri(sumK, n, r, v))

CallPoissonLambdaQtlFPri ==
    /\ op = "none"
    /\ \E sumK \in SumKs, n \in Ns :
        Call("PoissonLambdaQtlFPri", [sumK |-> sumK, n |-> n], <<>>,
             PoissonLambdaQtlFPri(sumK, n))

CallPoissonLambdaQtlJPri ==
    /\ op = "none"
    /\ \E sumK \in SumKs, n \in Ns :
        Call("PoissonLambdaQtlJPri", [sumK |-> sumK, n |-> n], <<>>,
             PoissonLambdaQtlJPri(sumK, n))

CallPoissonLambdaQtlGPri ==
    /\ op = "none"
    /\ \E sumK \in SumKs, n \in Ns, r \in PriorPars, v \in PriorPars :
        Call("PoissonLambdaQtlGPri", [sumK |-> sumK, n |-> n, r |-> r, v |-> v], <<>>,
             PoissonLambdaQtlGPri(sumK, n, r, v))

CallPoissonLambdaNextFPri ==
    /\ op = "none"
    /\ \E sumK \in SumKs, n \in Ns, x \in GammaVals :
        Call("PoissonLambdaNextFPri", [sumK |-> sumK, n |-> n], x,
             PoissonLambdaNextFPri(sumK, n, x))

CallPoissonLambdaNextJPri ==
    /\ op = "none"
    /\ \E sumK \in SumKs, n \in Ns, x \in GammaVals :
        Call("PoissonLambdaNextJPri", [sumK |-> sumK, n |-> n], x,
             PoissonLambdaNextJPri(sumK, n, x))

CallPoissonLambdaNextGPri ==
    /\ op = "none"
    /\ \E sumK \in SumKs, n \in Ns, r \in PriorPars, v \in PriorPars, x \in GammaVals :
        Call("PoissonLambdaNextGPri", [sumK |-> sumK, n |-> n, r |-> r, v |-> v], x,
             PoissonLambdaNextGPri(sumK, n, r, v, x))

CallPoissonLambdaPostMean ==
    /\ op = "none"
    /\ \E sumK \in SumKs \cup {10}, n \in Ns \cup {5}, r \in PriorPars, v \in PriorPars :
        Call("PoissonLambdaPostMean", [sumK |-> sumK, n |-> n, r |-> r, v |-> v], <<>>,
             PoissonLambdaPostMean(sumK, n, r, v))

CallPoissonLambdaIQR ==
    /\ op = "none"
    /\ \E sumK \in SumKs, n \in Ns, r \in PriorPars, v \in PriorPars,
       q \in GammaQtlOracles :
        Call("PoissonLambdaIQR", [sumK |-> sumK, n |-> n, r |-> r, v |-> v], q,
             PoissonLambdaIQR(sumK, n, r, v, q))

CallPoissonLambdaCrIGPri ==
    /\ op = "none"
    /\ \E sumK \in SumKs, n \in Ns, r \in PriorPars, v \in PriorPars,
       alpha \in Alphas, q \in GammaQtlOracles :
        Call("PoissonLambdaCrIGPri",
             [sumK |-> sumK, n |-> n, r |-> r, v |-> v, alpha |-> alpha], q,
             PoissonLambdaCrIGPri(sumK, n, r, v, alpha, q))

CallPoissonLambdaOneSidedTst ==
    /\ op = "none"
    /\ \E sumK \in SumKs, n \in Ns, r \in PriorPars, v \in PriorPars,
       alpha \in Alphas, lambda0 \in Lambda0s, p0 \in ProbVals :
        Call("PoissonLambdaOneSidedTst",
             [sumK |-> sumK, n |-> n, r |-> r, v |-> v, alpha |-> alpha,
              lambda0 |-> lambda0], p0,
             PoissonLambdaOneSidedTst(sumK, n, r, v, alpha, lambda0, p0))

CallPoissonLambdaOneSidedOdds ==
    /\ op = "none"
    /\ \E sumK \in SumKs, n \in Ns, r \in PriorPars, v \in PriorPars,
       lambda0 \in Lambda0s, p0 \in ProbVals :
        Call("PoissonLambdaOneSidedOdds",
             [sumK |-> sumK, n |-> n, r |-> r, v |-> v, lambda0 |-> lambda0], p0,
             PoissonLambdaOneSidedOdds(sumK, n, r, v, lambda0, p0))

CallPoissonLambdaTwoSidedTst ==
    /\ op = "none"
    /\ \E sumK \in SumKs, n \in Ns, r \in PriorPars, v \in PriorPars,
       alpha \in Alphas, lambda0 \in Lambda0s, q \in GammaQtlOracles :
        Call("PoissonLambdaTwoSidedTst",
             [sumK |-> sumK, n |-> n, r |-> r, v |-> v, alpha |-> alpha,
              lambda0 |-> lambda0], q,
             PoissonLambdaTwoSidedTst(sumK, n, r, v, alpha, lambda0, q))

CallNormMuSinglePMFDPri ==
    /\ op = "none"
    /\ \E y \in PMFYs, sigma \in PMFSigmas, mu \in SeqsUpTo(MuVals),
          muPri \in SeqsUpTo(MassVals) :
        \E phi \in ZPDFOracles({ZOf(y, sigma, mu, i) : i \in 1 .. Len(mu)}) :
            Call("NormMuSinglePMFDPri",
                 [y |-> y, sigma |-> sigma, mu |-> mu, muPri |-> muPri], phi,
                 NormMuSinglePMFDPri(y, sigma, mu, muPri, phi))

CallNormMuPMFDPri ==
    /\ op = "none"
    /\ \E nObs \in DiffObs, ybar \in PMFYs, sigma \in PMFSigmas,
          mu \in SeqsUpTo(MuVals), muPri \in SeqsUpTo(MassVals) :
        \E ex \in ExpOracles({ExpArgOf(nObs, ybar, sigma, mu, i) : i \in 1 .. Len(mu)}) :
            Call("NormMuPMFDPri",
                 [nObs |-> nObs, ybar |-> ybar, sigma |-> sigma, mu |-> mu,
                  muPri |-> muPri], ex,
                 NormMuPMFDPri(nObs, ybar, sigma, mu, muPri, ex))

CallNormMuPostMean ==
    /\ op = "none"
    /\ \E nObs \in Obs, ybar \in Ys, sigma \in Sigmas, muPri \in MuPris,
          sigmaPri \in SigmaPris :
        Call("NormMuPostMean",
             [nObs |-> nObs, ybar |-> ybar, sigma |-> sigma, muPri |-> muPri,
              sigmaPri |-> sigmaPri], <<>>,
             NormMuPostMean(nObs, ybar, sigma, muPri, sigmaPri))

CallNormMuPostStd ==
    /\ op = "none"
    /\ \E nObs \in Obs, sigma \in Sigmas, muPri \in MuPris, sigmaPri \in SigmaPris :
        Call("NormMuPostStd",
             [nObs |-> nObs, sigma |-> sigma, muPri |-> muPri, sigmaPri |-> sigmaPri],
             <<>>,
             NormMuPostStd(nObs, sigma, muPri, sigmaPri))

CallNormMuSingleQtlFPri ==
    /\ op = "none"
    /\ \E y \in Ys, sigma \in Sigmas, p \in Probs, z \in NormalQtlOracles :
        Call("NormMuSingleQtlFPri", [y |-> y, sigma |-> sigma, p |-> p], z,
             NormMuSingleQtlFPri(y, sigma, p, z))

CallNormMuQtlFPri ==
    /\ op = "none"
    /\ \E nObs \in Obs, ybar \in Ys, sigma \in Sigmas, p \in Probs,
          z \in NormalQtlOracles :
        Call("NormMuQtlFPri", [nObs |-> nObs, ybar |-> ybar, sigma |-> sigma, p |-> p],
             z, NormMuQtlFPri(nObs, ybar, sigma, p, z))

CallNormMuSingleQtlNPri ==
    /\ op = "none"
    /\ \E y \in Ys, sigma \in Sigmas, muPri \in MuPris, sigmaPri \in SingleSigmaPris,
          p \in Probs, z \in NormalQtlOracles :
        Call("NormMuSingleQtlNPri",
             [y |-> y, sigma |-> sigma, muPri |-> muPri, sigmaPri |-> sigmaPri,
              p |-> p], z,
             NormMuSingleQtlNPri(y, sigma, muPri, sigmaPri, p, z))

CallNormMuQtlNPri ==
    /\ op = "none"
    /\ \E nObs \in Obs, ybar \in Ys, sigma \in Sigmas, muPri \in MuPris,
          sigmaPri \in SigmaPris, p \in Probs, z \in NormalQtlOracles :
        Call("NormMuQtlNPri",
             [nObs |-> nObs, ybar |-> ybar, sigma |-> sigma, muPri |-> muPri,
              sigmaPri |-> sigmaPri, p |-> p], z,
             NormMuQtlNPri(nObs, ybar, sigma, muPri, sigmaPri, p, z))

CallNormMuCrINPriKnown ==
    /\ op = "none"
    /\ \E nObs \in Obs, ybar \in Ys, sigma \in Sigmas, muPri \in MuPris,
          sigmaPri \in SigmaPris, alpha \in Alphas, z \in NormalQtlOracles :
        Call("NormMuCrINPriKnown",
             [nObs |-> nObs, ybar |-> ybar, sigma |-> sigma, muPri |-> muPri,
              sigmaPri |-> sigmaPri, alpha |-> alpha], z,
             NormMuCrINPriKnown(nObs, ybar, sigma, muPri, sigmaPri, alpha, z))

CallNormMuCrIFPriKnown ==
    /\ op = "none"
    /\ \E nObs \in Obs, ybar \in Ys, sigma \in Sigmas, alpha \in Alphas,
          z \in NormalQtlOracles :
        Call("NormMuCrIFPriKnown",
             [nObs |-> nObs, ybar |-> ybar, sigma |-> sigma, alpha |-> alpha], z,
             NormMuCrIFPriKnown(nObs, ybar, sigma, alpha, z))

CallNormalMuDiffPDFNPriKn ==
    /\ op = "none"
    /\ \E nObs1 \in Obs, nObs2 \in DiffObs, ybar1 \in Ys, ybar2 \in {Zero},
          sigma1 \in Sigmas, sigma2 \in DiffSds, mu1Pri \in MuPris,
          sigma1Pri \in DiffSds, mu2Pri \in {Zero}, sigma2Pri \in DiffSds :
        Call("NormalMuDiffPDFNPriKn",
             [nObs1 |-> nObs1, nObs2 |-> nObs2, ybar1 |-> ybar1, ybar2 |-> ybar2,
              sigma1 |-> sigma1, sigma2 |-> sigma2, mu1Pri |-> mu1Pri,
              sigma1Pri |-> sigma1Pri, mu2Pri |-> mu2Pri, sigma2Pri |-> sigma2Pri],
             <<>>,
             NormalMuDiffPDFNPriKn(nObs1, nObs2, ybar1, ybar2, sigma1, sigma2,
                        mu1Pri, sigma1Pri, mu2Pri, sigma2Pri))

CallNormalMuDiffCDFNPriKn ==
    /\ op = "none"
    /\ \E nObs1 \in Obs, nObs2 \in DiffObs, ybar1 \in Ys, ybar2 \in {Zero},
          sigma1 \in Sigmas, sigma2 \in DiffSds, mu1Pri \in MuPris,
          sigma1Pri \in DiffSds, mu2Pri \in {Zero}, sigma2Pri \in DiffSds :
        Call("NormalMuDiffCDFNPriKn",
             [nObs1 |-> nObs1, nObs2 |-> nObs2, ybar1 |-> ybar1, ybar2 |-> ybar2,
              sigma1 |-> sigma1, sigma2 |-> sigma2, mu1Pri |-> mu1Pri,
              sigma1Pri |-> sigma1Pri, mu2Pri |-> mu2Pri, sigma2Pri |-> sigma2Pri],
             <<>>,
             NormalMuDiffCDFNPriKn(nObs1, nObs2, ybar1, ybar2, sigma1, sigma2,
                        mu1Pri, sigma1Pri, mu2Pri, sigma2Pri))

CallNormalMuDiffQtlNPriKn ==
    /\ op = "none"
    /\ \E nObs1 \in Obs, nObs2 \in DiffObs, ybar1 \in Ys, ybar2 \in {Zero},
          sigma1 \in Sigmas, sigma2 \in DiffSds, mu1Pri \in MuPris,
          sigma1Pri \in DiffSds, mu2Pri \in {Zero}, sigma2Pri \in DiffSds :
        Call("NormalMuDiffQtlNPriKn",
             [nObs1 |-> nObs1, nObs2 |-> nObs2, ybar1 |-> ybar1, ybar2 |-> ybar2,
              sigma1 |-> sigma1, sigma2 |-> sigma2, mu1Pri |-> mu1Pri,
              sigma1Pri |-> sigma1Pri, mu2Pri |-> mu2Pri, sigma2Pri |-> sigma2Pri],
             <<>>,
             NormalMuDiffQtlNPriKn(nObs1, nObs2, ybar1, ybar2, sigma1, sigma2,
                        mu1Pri, sigma1Pri, mu2Pri, sigma2Pri))

CallNormalMuDiffMomentsNPriKn ==
    /\ op = "none"
    /\ \E nObs1 \in Obs, nObs2 \in DiffObs, ybar1 \in Ys, ybar2 \in {Zero},
          sigma1 \in Sigmas, sigma2 \in DiffSds, mu1Pri \in MuPris,
          sigma1Pri \in DiffSds, mu2Pri \in {Zero}, sigma2Pri \in DiffSds :
        Call("NormalMuDiffMomentsNPriKn",
             [nObs1 |-> nObs1, nObs2 |-> nObs2, ybar1 |-> ybar1, ybar2 |-> ybar2,
              sigma1 |-> sigma1, sigma2 |-> sigma2, mu1Pri |-> mu1Pri,
              sigma1Pri |-> sigma1Pri, mu2Pri |-> mu2Pri, sigma2Pri |-> sigma2Pri],
             <<>>,
             NormalMuDiffMomentsNPriKn(nObs1, nObs2, ybar1, ybar2, sigma1, sigma2,
                            mu1Pri, sigma1Pri, mu2Pri, sigma2Pri))

Callsatterthwaitenu ==
    /\ op = "none"
    /\ \E estvar1 \in EstVars, nObs1 \in SatObs, estvar2 \in EstVars, nObs2 \in SatObs :
        Call("satterthwaitenu",
             [estvar1 |-> estvar1, nObs1 |-> nObs1, estvar2 |-> estvar2,
              nObs2 |-> nObs2], <<>>,
             Ok(<<>>, satterthwaitenu(estvar1, nObs1, estvar2, nObs2)))

CallNormalMuDiffCrINPriUn ==
    /\ op = "none"
    /\ \E nObs1 \in DiffObs, nObs2 \in DiffObs, ybar1 \in Ys, ybar2 \in {Zero},
          s1 \in DiffSds, s2 \in DiffSds, mu1Pri \in {One}, sigma1Pri \in DiffSds,
          alpha0 \in {Half}, alpha \in Alphas, t \in StudentsTQtlOracles :
        Call("NormalMuDiffCrINPriUn",
             [nObs1 |-> nObs1, nObs2 |-> nObs2, ybar1 |-> ybar1, ybar2 |-> ybar2,
              s1 |-> s1, s2 |-> s2, mu1Pri |-> mu1Pri, sigma1Pri |-> sigma1Pri,
              mu2Pri |-> Zero, sigma2Pri |-> One, alpha0 |-> alpha0,
              alpha |-> alpha], t,
             NormalMuDiffCrINPriUn(nObs1, nObs2, ybar1, ybar2, s1, s2,
                                   mu1Pri, sigma1Pri, Zero, One, alpha0, alpha, t))

CallNormalMuDiffCrIFPriUn ==
    /\ op = "none"
    /\ \E nObs1 \in DiffObs, nObs2 \in DiffObs, ybar1 \in Ys, ybar2 \in {Zero},
          s1 \in DiffSds, s2 \in DiffSds, mu1Pri \in {One}, sigma1Pri \in DiffSds,
          alpha0 \in {Half}, alpha \in Alphas, t \in StudentsTQtlOracles :
        Call("NormalMuDiffCrIFPriUn",
             [nObs1 |-> nObs1, nObs2 |-> nObs2, ybar1 |-> ybar1, ybar2 |-> ybar2,
              s1 |-> s1, s2 |-> s2, mu1Pri |-> mu1Pri, sigma1Pri |-> sigma1Pri,
              mu2Pri |-> Zero, sigma2Pri |-> One, alpha0 |-> alpha0,
              alpha |-> alpha], t,
             NormalMuDiffCrIFPriUn(nObs1, nObs2, ybar1, ybar2, s1, s2,
                                   mu1Pri, sigma1Pri, Zero, One, alpha0, alpha, t))

CallNormalMuDiffQtlNPriUn ==
    /\ op = "none"
    /\ \E nObs1 \in DiffObs, nObs2 \in DiffObs, ybar1 \in Ys, ybar2 \in {Zero},
          s1 \in DiffSds, s2 \in DiffSds, mu1Pri \in {One}, sigma1Pri \in {One},
          p0 \in OuterProbs, p \in DiffProbs, t \in StudentsTQtlOracles :
        Call("NormalMuDiffQtlNPriUn",
             [nObs1 |-> nObs1, nObs2 |-> nObs2, ybar1 |-> ybar1, ybar2 |-> ybar2,
              s1 |-> s1, s2 |-> s2, mu1Pri |-> mu1Pri, sigma1Pri |-> sigma1Pri,
              mu2Pri |-> Zero, sigma2Pri |-> One, p0 |-> p0, p |-> p], t,
             NormalMuDiffQtlNPriUn(nObs1, nObs2, ybar1, ybar2, s1, s2,
                                   mu1Pri, sigma1Pri, Zero, One, p0, p, t))

Next ==
    \/ CallPoissonLambdaPDFFPri
    \/ CallPoissonLambdaPDFJPri
    \/ CallPoissonLambdaPDFGPri
    \/ CallPoissonLambdaCDFFPri
    \/ CallPoissonLambdaCDFJPri
    \/ CallPoissonLambdaCDFGPri
    \/ CallPoissonLambdaQtlFPri
    \/ CallPoissonLambdaQtlJPri
    \/ CallPoissonLambdaQtlGPri
    \/ CallPoissonLambdaNextFPri
    \/ CallPoissonLambdaNextJPri
    \/ CallPoissonLambdaNextGPri
    \/ CallPoissonLambdaPostMean
    \/ CallPoissonLambdaIQR
    \/ CallPoissonLambdaCrIGPri
    \/ CallPoissonLambdaOneSidedTst
    \/ CallPoissonLambdaOneSidedOdds
    \/ CallPoissonLambdaTwoSidedTst
    \/ CallNormMuSinglePMFDPri
    \/ CallNormMuPMFDPri
    \/ CallNormMuPostMean
    \/ CallNormMuPostStd
    \/ CallNormMuSingleQtlFPri
    \/ CallNormMuQtlFPri
    \/ CallNormMuSingleQtlNPri
    \/ CallNormMuQtlNPri
    \/ CallNormMuCrINPriKnown
    \/ CallNormMuCrIFPriKnown
    \/ CallNormalMuDiffPDFNPriKn
    \/ CallNormalMuDiffCDFNPriKn
    \/ CallNormalMuDiffQtlNPriKn
    \/ CallNormalMuDiffMomentsNPriKn
    \/ Callsatterthwaitenu
    \/ CallNormalMuDiffCrINPriUn
    \/ CallNormalMuDiffCrIFPriUn
    \/ CallNormalMuDiffQtlNPriUn

Spec == Init /\ [][Next]_vars

---------------------------------------------------------------------------
(* properties *)

FlatOps == {"PoissonLambdaPDFFPri", "PoissonLambdaCDFFPri", "PoissonLambdaQtlFPri",
            "PoissonLambdaNextFPri"}
JeffreysOps == {"PoissonLambdaPDFJPri", "PoissonLambdaCDFJPri", "PoissonLambdaQtlJPri",
                "PoissonLambdaNextJPri"}
GammaOps == {"PoissonLambdaPDFGPri", "PoissonLambdaCDFGPri", "PoissonLambdaQtlGPri",
             "PoissonLambdaNextGPri"}
AccessorOps == FlatOps \cup JeffreysOps \cup GammaOps

\* the Poisson entry points that take the Gamma prior's r and v
PoissonRVOps == GammaOps \cup {"PoissonLambdaPostMean", "PoissonLambdaIQR",
                               "PoissonLambdaCrIGPri", "PoissonLambdaOneSidedTst",
                               "PoissonLambdaOneSidedOdds", "PoissonLambdaTwoSidedTst"}
PoissonOps == AccessorOps \cup PoissonRVOps

FamilyPrim ==
    [o \in AccessorOps |->
        IF o \in {"PoissonLambdaPDFFPri", "PoissonLambdaPDFJPri", "PoissonLambdaPDFGPri"}
        THEN "GammaPDF"
        ELSE IF o \in {"PoissonLambdaCDFFPri", "PoissonLambdaCDFJPri",
                       "PoissonLambdaCDFGPri"}
        THEN "GammaCDF"
        ELSE IF o \in {"PoissonLambdaQtlFPri", "PoissonLambdaQtlJPri",
                       "PoissonLambdaQtlGPri"}
        THEN "GammaQtl"
        ELSE "GammaNext"]

\* the prior's (r, v) of the accessor called
PriorR == IF op \in FlatOps THEN One ELSE IF op \in JeffreysOps THEN Half ELSE args.r
PriorV == IF op \in GammaOps THEN args.v ELSE Zero

PoissonDataOk == args.sumK >= 0 /\ args.n > 0
PoissonPriorOk == op \in PoissonRVOps => RLe(Zero, args.r) /\ RLe(Zero, args.v)

\* C1: for valid arguments every Poisson density, CDF, quantile and variate
\* accessor hands its Gamma primitive exactly shape r_prior + sumK and scale
\* 1/(v_prior + n), with (r_prior, v_prior) = (1, 0) flat, (1/2, 0) Jeffreys,
\* (r, v) Gamma; the four families of a prior use the same pair, and the flat
\* accessors the pair of the Gamma accessors called with r = 1, v = 0.
C1_PosteriorParams ==
    (op \in AccessorOps /\ PoissonDataOk /\ PoissonPriorOk) =>
        LET par == <<RAdd(PriorR, FromInt(args.sumK)),
                     RDiv(One, RAdd(PriorV, FromInt(args.n)))>>
            k == args.sumK
            n == args.n
        IN  /\ out.st = "ok"
            /\ out.calls = <<Bind(FamilyPrim[op], par)>>
            /\ op \in FlatOps =>
                 /\ \A o \in {PoissonLambdaPDFFPri(k, n), PoissonLambdaCDFFPri(k, n),
                              PoissonLambdaQtlFPri(k, n),
                              PoissonLambdaNextFPri(k, n, Zero)} :
                        o.calls[1].par = out.calls[1].par
                 /\ \A o \in {PoissonLambdaPDFGPri(k, n, One, Zero),
                              PoissonLambdaCDFGPri(k, n, One, Zero),
                              PoissonLambdaQtlGPri(k, n, One, Zero),
                              PoissonLambdaNextGPri(k, n, One, Zero, Zero)} :
                        o.calls[1].par = out.calls[1].par
            /\ op \in JeffreysOps =>
                 \A o \in {PoissonLambdaPDFJPri(k, n), PoissonLambdaCDFJPri(k, n),
                           PoissonLambdaQtlJPri(k, n),
                           PoissonLambdaNextJPri(k, n, Zero)} :
                     o.calls[1].par = out.calls[1].par
            /\ op \in GammaOps =>
                 \A o \in {PoissonLambdaPDFGPri(k, n, args.r, args.v),
                           PoissonLambdaCDFGPri(k, n, args.r, args.v),
                           PoissonLambdaQtlGPri(k, n, args.r, args.v),
                           PoissonLambdaNextGPri(k, n, args.r, args.v, Zero)} :
                     o.calls[1].par = out.calls[1].par

\* Jeffreys' quantile accessor on sumK = 1, n = 2 binds GammaQtl to (3/2, 1/2)
C1_Witness ==
    /\ op = "PoissonLambdaQtlJPri"
    /\ args.sumK = 1 /\ args.n = 2
    /\ out.st = "ok"
    /\ out.calls[1] = Bind("GammaQtl", <<R(3, 2), R(1, 2)>>)

\* C2: every Poisson entry point that takes sumK and n panics, before any call
\* to a Gamma primitive, when sumK < 0 or n <= 0, or (where it takes them)
\* r < 0 or v < 0.
C2_AllValidate ==
    (op \in PoissonOps /\ ~(PoissonDataOk /\ PoissonPriorOk)) =>
        out.st = "panic" /\ out.calls = <<>>

NormMuSigmaOps == {"NormMuSinglePMFDPri", "NormMuPMFDPri", "NormMuPostMean",
                   "NormMuPostStd", "NormMuSingleQtlFPri", "NormMuQtlFPri",
                   "NormMuSingleQtlNPri", "NormMuQtlNPri", "NormMuCrINPriKnown",
                   "NormMuCrIFPriKnown"}
NormMuSigmaPriOps == {"NormMuPostMean", "NormMuPostStd", "NormMuSingleQtlNPri",
                      "NormMuQtlNPri", "NormMuCrINPriKnown"}

\* C3: every Normal-mean entry point panics when sigma <= 0 or, where it takes
\* one, when sigmaPri <= 0.
C3_SigmaValidated ==
    (/\ op \in NormMuSigmaOps
     /\ \/ RLe(args.sigma, Zero)
        \/ op \in NormMuSigmaPriOps /\ RLe(args.sigmaPri, Zero)) =>
        out.st = "panic"

InUnit(p) == RLt(Zero, p) /\ RLt(p, One)

QtlPrims == {"NormalQtlFor", "GammaQtl", "StudentsTQtl"}

\* C4: the Normal-mean quantile and credible-interval functions and
\* PoissonLambdaCrIGPri panic on a probability p, or a level alpha, outside
\* (0,1), and no quantile primitive is ever asked for a probability outside (0,1).
C4_ProbabilityValidated ==
    /\ (op \in {"NormMuQtlFPri", "NormMuQtlNPri"} /\ ~InUnit(args.p)) => out.st = "panic"
    /\ (/\ op \in {"NormMuCrINPriKnown", "NormMuCrIFPriKnown", "PoissonLambdaCrIGPri"}
        /\ ~InUnit(args.alpha)) => out.st = "panic"
    /\ op \in {"NormMuQtlFPri", "NormMuQtlNPri", "NormMuCrINPriKnown",
               "NormMuCrIFPriKnown", "PoissonLambdaCrIGPri"} =>
          \A i \in 1 .. Len(out.calls) :
              (out.calls[i].prim \in QtlPrims /\ Len(out.calls[i].at) = 1) =>
                  InUnit(out.calls[i].at[1])

PMFOps == {"NormMuSinglePMFDPri", "NormMuPMFDPri"}

\* C5: NormMuSinglePMFDPri and NormMuPMFDPri panic, before any likelihood is
\* evaluated, when the candidate values and the prior masses differ in length,
\* and otherwise return a posterior array of that length.
C5_LengthsChecked ==
    op \in PMFOps =>
        IF Len(args.mu) # Len(args.muPri)
        THEN out.st = "panic" /\ out.calls = <<>> /\ out.ret = <<>>
        ELSE out.st = "ok" /\ Len(out.ret) = Len(args.mu)

\* more prior masses than candidates: the call panics
C5_Witness ==
    /\ op = "NormMuPMFDPri"
    /\ Len(args.mu) = 1 /\ Len(args.muPri) = 2
    /\ out.st = "panic" /\ out.calls = <<>>

SatV == satterthwaiteV(args.estvar1, args.nObs1, args.estvar2, args.nObs2)

SatTie == RFloor(SatV) # RCeil(SatV) /\ RSub(SatV, RFloor(SatV)) = RSub(RCeil(SatV), SatV)

\* ret is an integer at least as near to v as every other integer
SatNearest ==
    /\ out.ret \in {RFloor(SatV), RCeil(SatV)}
    /\ RLe(RSub(SatV, out.ret), Half) /\ RLe(RSub(out.ret, SatV), Half)

\* C6 as stated: satterthwaitenu returns the integer nearest to v, ceil(v) when
\* v is halfway between two integers, and v when v is an integer.
C6_TieToCeil ==
    (op = "satterthwaitenu" /\ IsFinite(SatV)) =>
        /\ SatNearest
        /\ SatTie => out.ret = RCeil(SatV)
        /\ RFloor(SatV) = SatV => out.ret = SatV

\* C6 amended: satterthwaitenu returns the integer nearest to v, floor(v) when
\* v is halfway between two integers, and v when v is an integer.
C6_TieToFloor ==
    (op = "satterthwaitenu" /\ IsFinite(SatV)) =>
        /\ SatNearest
        /\ SatTie => out.ret = RFloor(SatV)
        /\ RFloor(SatV) = SatV => out.ret = SatV

\* estvar1 = 1, n1 = 2, estvar2 = 2, n2 = 4: v = 15/2 and the result is 7
C6_Witness ==
    /\ op = "satterthwaitenu"
    /\ args = [estvar1 |-> One, nObs1 |-> 2, estvar2 |-> FromInt(2), nObs2 |-> 4]
    /\ SatV = R(15, 2) /\ SatTie
    /\ out.ret = FromInt(7)

\* C7: for sumK >= 0 and n > 0 PoissonLambdaPostMean returns the mean of the
\* flat-prior Gamma posterior, (sumK + 1)/n; 2.2 for sumK = 10, n = 5.
C7_PostMeanIsGammaMean ==
    (op = "PoissonLambdaPostMean" /\ PoissonDataOk) =>
        /\ out.st = "ok"
        /\ out.ret = RDiv(FromInt(args.sumK + 1), FromInt(args.n))

CrIOps == {"NormMuCrINPriKnown", "NormMuCrIFPriKnown", "PoissonLambdaCrIGPri"}

CrIValid ==
    IF op = "PoissonLambdaCrIGPri" THEN PoissonDataOk /\ PoissonPriorOk
    ELSE /\ args.nObs > 0
         /\ RLt(Zero, args.sigma)
         /\ op = "NormMuCrINPriKnown" => RLt(Zero, args.sigmaPri)

\* the call observed, made again at level a with the same primitive
CrIAt(a) ==
    IF op = "PoissonLambdaCrIGPri"
    THEN PoissonLambdaCrIGPri(args.sumK, args.n, args.r, args.v, a, env)
    ELSE IF op = "NormMuCrINPriKnown"
    THEN NormMuCrINPriKnown(args.nObs, args.ybar, args.sigma, args.muPri,
                            args.sigmaPri, a, env)
    ELSE NormMuCrIFPriKnown(args.nObs, args.ybar, args.sigma, a, env)

\* C8: for alpha in (0,1) and valid arguments, the intervals of
\* NormMuCrINPriKnown, NormMuCrIFPriKnown and PoissonLambdaCrIGPri have
\* lo <= hi, lo and hi being the quantiles at alpha/2 and 1 - alpha/2 of one and
\* the same posterior (the quantile primitive being non-decreasing), and the
\* interval at a level alpha1 <= alpha contains the interval at alpha.
C8_EqualTailInterval ==
    (op \in CrIOps /\ InUnit(args.alpha) /\ CrIValid) =>
        LET k == Len(out.calls)
            pLo == RDiv(args.alpha, FromInt(2))
            pHi == RSub(One, RDiv(args.alpha, FromInt(2)))
        IN  /\ out.st = "ok"
            /\ RLe(out.ret.lo, out.ret.hi)
            /\ out.calls[k - 1].prim \in QtlPrims
            /\ out.calls[k].prim = out.calls[k - 1].prim
            /\ out.calls[k].par = out.calls[k - 1].par
            /\ out.calls[k - 1].at = <<pLo>>
            /\ out.calls[k].at = <<pHi>>
            /\ out.ret.lo = env[pLo]
            /\ out.ret.hi = env[pHi]
            /\ \A a \in Alphas :
                   (InUnit(a) /\ RLe(a, args.alpha)) =>
                       /\ RLe(CrIAt(a).ret.lo, out.ret.lo)
                       /\ RLe(out.ret.hi, CrIAt(a).ret.hi)

\* an interval with lo < hi, narrower than the interval at alpha = 1/4
C8_Witness ==
    /\ op = "NormMuCrINPriKnown"
    /\ args.alpha = Half /\ CrIValid
    /\ out.st = "ok"
    /\ RLt(out.ret.lo, out.ret.hi)
    /\ RLt(CrIAt(R(1, 4)).ret.lo, out.ret.lo)
    /\ RLe(out.ret.hi, CrIAt(R(1, 4)).ret.hi)

\* C9: for alpha in (0,1) the intervals returned by the closures of
\* NormalMuDiffCrINPriUn and NormalMuDiffCrIFPriUn have lo <= hi (Student's t
\* quantile non-decreasing, 0 at 1/2, negative below; standard deviations > 0).
C9_DiffIntervalOrdered ==
    (/\ op \in {"NormalMuDiffCrINPriUn", "NormalMuDiffCrIFPriUn"}
     /\ InUnit(args.alpha)) =>
        /\ out.st = "ok"
        /\ SurdLe(out.ret.lo, out.ret.hi)

\* lambda0 is outside [lo, hi]
Outside(lambda0, lo, hi) == ~(RLe(lo, lambda0) /\ RLe(lambda0, hi))

\* C10: PoissonLambdaTwoSidedTst rejects iff lambda0 lies strictly outside the
\* interval PoissonLambdaCrIGPri returns for the same arguments; lambda0 = lo
\* and lambda0 = hi are not rejected; invalid sumK, n, r, v make it panic as
\* the interval does.
C10_TwoSidedIffOutside ==
    op = "PoissonLambdaTwoSidedTst" =>
        LET ci == PoissonLambdaCrIGPri(args.sumK, args.n, args.r, args.v,
                                       args.alpha, env)
        IN  /\ ci.st = "panic" <=> ~(PoissonDataOk /\ PoissonPriorOk)
            /\ ci.st = "panic" => out = ci
            /\ ci.st = "ok" =>
                 /\ out.st = "ok"
                 /\ out.ret = Outside(args.lambda0, ci.ret.lo, ci.ret.hi)
                 /\ (/\ RLe(ci.ret.lo, ci.ret.hi)
                     /\ args.lambda0 \in {ci.ret.lo, ci.ret.hi}) => out.ret = FALSE

\* lambda0 on the lower end of a proper interval is not rejected
C10_Witness ==
    /\ op = "PoissonLambdaTwoSidedTst"
    /\ args.alpha = Half /\ args.lambda0 = One
    /\ out.st = "ok"
    /\ out.calls[2].at = <<R(1, 4)>> /\ env[R(1, 4)] = One
    /\ out.calls[3].at = <<R(3, 4)>> /\ env[R(3, 4)] = FromInt(2)
    /\ out.ret = FALSE

\* C11: for sigma > 0 and sigmaPri > 0 the mean and the variance that
\* NormMuSingleQtlNPri passes to the Normal quantile primitive are, as exact
\* rationals, NormMuPostMean(1, y, sigma, muPri, sigmaPri) and
\* NormMuPostStd(1, sigma, muPri, sigmaPri) squared: the general formulas, which
\* NormMuQtlNPri and NormMuCrINPriKnown inline, taken at n = 1 and ybar = y.
C11_SingleIsGeneralAtOne ==
    (/\ op = "NormMuSingleQtlNPri"
     /\ RLt(Zero, args.sigma) /\ RLt(Zero, args.sigmaPri)) =>
        LET mean == NormMuPostMean(1, args.y, args.sigma, args.muPri, args.sigmaPri)
            std == NormMuPostStd(1, args.sigma, args.muPri, args.sigmaPri)
            qtl == NormMuQtlNPri(1, args.y, args.sigma, args.muPri, args.sigmaPri,
                                 args.p, env)
            cri == NormMuCrINPriKnown(1, args.y, args.sigma, args.muPri,
                                      args.sigmaPri, Half, env)
        IN  /\ out.st = "ok"
            /\ Len(out.calls) = 1
            /\ out.calls[1].prim = "NormalQtlFor"
            /\ IsFinite(out.calls[1].par[1])
            /\ out.calls[1].par[1] = mean.ret
            /\ SqSurd(out.calls[1].par[2]) = SqSurd(std.ret)
            /\ out.calls[1].par = qtl.calls[1].par
            /\ out.calls[1].par = cri.calls[1].par

\* sigma = 2, sigmaPri = 1, y = 1, muPri = 0: mean 1/5 and variance 4/5
C11_Witness ==
    /\ op = "NormMuSingleQtlNPri"
    /\ args.sigma = FromInt(2) /\ args.sigmaPri = One
    /\ args.y = One /\ args.muPri = Zero
    /\ out.st = "ok"
    /\ out.calls[1].par[1] = R(1, 5)
    /\ SqSurd(out.calls[1].par[2]) = R(4, 5)
    /\ NormMuPostMean(1, args.y, args.sigma, args.muPri, args.sigmaPri).ret = R(1, 5)

DiffKnOps == {"NormalMuDiffPDFNPriKn", "NormalMuDiffCDFNPriKn", "NormalMuDiffQtlNPriKn"}

\* the primitive each constructor of the known-variance path binds
DiffKnPrim ==
    IF op = "NormalMuDiffPDFNPriKn" THEN "NormalPDF"
    ELSE IF op = "NormalMuDiffCDFNPriKn" THEN "NormalCDF"
    ELSE "NormalQtl"

DiffKnValid ==
    /\ args.nObs1 > 0 /\ args.nObs2 > 0
    /\ RLt(Zero, args.sigma1) /\ RLt(Zero, args.sigma2)
    /\ RLt(Zero, args.sigma1Pri) /\ RLt(Zero, args.sigma2Pri)

\* C12: for valid inputs NormalMuDiffPDFNPriKn, NormalMuDiffCDFNPriKn and
\* NormalMuDiffQtlNPriKn each bind their primitive to exactly the pair
\* (mudPost, sigmadPost) NormalMuDiffMomentsNPriKn returns for the same inputs,
\* with mudPost = mu1Post - mu2Post and sigmadPost^2 = sigma1Post^2 +
\* sigma2Post^2, muiPost and sigmaiPost being NormMuPostMean and NormMuPostStd
\* on sample i alone.
C12_DiffKnUsesMoments ==
    (op \in DiffKnOps /\ DiffKnValid) =>
        LET mom == NormalMuDiffMomentsNPriKn(args.nObs1, args.nObs2, args.ybar1,
                       args.ybar2, args.sigma1, args.sigma2, args.mu1Pri,
                       args.sigma1Pri, args.mu2Pri, args.sigma2Pri)
            mu1Post == NormMuPostMean(args.nObs1, args.ybar1, args.sigma1,
                                      args.mu1Pri, args.sigma1Pri).ret
            mu2Post == NormMuPostMean(args.nObs2, args.ybar2, args.sigma2,
                                      args.mu2Pri, args.sigma2Pri).ret
            sigma1Post == NormMuPostStd(args.nObs1, args.sigma1, args.mu1Pri,
                                        args.sigma1Pri).ret
            sigma2Post == NormMuPostStd(args.nObs2, args.sigma2, args.mu2Pri,
                                        args.sigma2Pri).ret
        IN  /\ out.st = "ok"
            /\ Len(out.calls) = 1
            /\ out.calls[1].prim = DiffKnPrim
            /\ out.calls[1].at = <<>>
            /\ out.ret = out.calls[1]
            /\ mom.st = "ok"
            /\ out.calls[1].par = mom.ret
            /\ IsFinite(mom.ret[1])
            /\ mom.ret[1] = RSub(mu1Post, mu2Post)
            /\ IsFinite(SqSurd(mom.ret[2]))
            /\ SqSurd(mom.ret[2]) = RAdd(SqSurd(sigma1Post), SqSurd(sigma2Post))

\* two samples with different posterior variances: n1 = 1, n2 = 2, all standard
\* deviations 1, ybar1 = 1, ybar2 = 0, priors centred at 0: posterior means 1/2
\* and 0, posterior variances 1/2 and 1/3
C12_Witness ==
    /\ op = "NormalMuDiffQtlNPriKn"
    /\ args.nObs1 = 1 /\ args.nObs2 = 2
    /\ args.ybar1 = One /\ args.ybar2 = Zero
    /\ args.sigma1 = One /\ args.sigma2 = One
    /\ args.mu1Pri = Zero /\ args.mu2Pri = Zero
    /\ args.sigma1Pri = One /\ args.sigma2Pri = One
    /\ out.st = "ok"
    /\ out.calls[1].prim = "NormalQtl"
    /\ out.calls[1].par[1] = Half
    /\ SqSurd(out.calls[1].par[2]) = R(5, 6)

\* the prior masses are all >= 0 and sum to 1
PriorIsPMF ==
    /\ Len(args.mu) = Len(args.muPri)
    /\ \A i \in 1 .. Len(args.muPri) : RLe(Zero, args.muPri[i])
    /\ SumTo(args.muPri, Len(args.muPri)) = One

\* the likelihood the call saw for candidate i
LikeOf(i) ==
    IF op = "NormMuSinglePMFDPri"
    THEN env[ZOf(args.y, args.sigma, args.mu, i)]
    ELSE env[ExpArgOf(args.nObs, args.ybar, args.sigma, args.mu, i)]

\* the sum over the candidates of prior mass times likelihood
PMFNormalizer ==
    SumTo([i \in 1 .. Len(args.mu) |-> RMul(args.muPri[i], LikeOf(i))], Len(args.mu))

\* C13: for a discrete prior with as many masses as candidates, all masses
\* >= 0 and summing to 1 (sigma > 0 and finite data), the posterior masses of
\* NormMuSinglePMFDPri and NormMuPMFDPri are each >= 0, sum to 1, each equals
\* prior_i * L_i / sum_j prior_j * L_j, and a candidate with prior mass 0 gets
\* posterior mass 0.
C13_PosteriorIsPMF ==
    (op \in PMFOps /\ PriorIsPMF /\ RLt(Zero, args.sigma)) =>
        /\ out.st = "ok"
        /\ Len(out.ret) = Len(args.mu)
        /\ \A i \in 1 .. Len(out.ret) :
               /\ RLe(Zero, out.ret[i])
               /\ out.ret[i] = RDiv(RMul(args.muPri[i], LikeOf(i)), PMFNormalizer)
               /\ args.muPri[i] = Zero => out.ret[i] = Zero
        /\ SumTo(out.ret, Len(out.ret)) = One

\* the call observed, made again with outer argument p0 and inner argument p
DiffQtlAt(p0, p) ==
    NormalMuDiffQtlNPriUn(args.nObs1, args.nObs2, args.ybar1, args.ybar2, args.s1,
                          args.s2, args.mu1Pri, args.sigma1Pri, args.mu2Pri,
                          args.sigma2Pri, p0, p, env)

\* the posterior mean of the difference for the call observed
DiffMuPost ==
    RSub(NormMuPostMean(args.nObs1, args.ybar1, args.s1, args.mu1Pri,
                        args.sigma1Pri).ret,
         NormMuPostMean(args.nObs2, args.ybar2, args.s2, args.mu2Pri,
                        args.sigma2Pri).ret)

\* C14: for p in (0,1) the closure returned by NormalMuDiffQtlNPriUn asks the
\* Student's t quantile primitive only for probabilities strictly inside
\* (0,1); the quantile it returns is non-decreasing in p, at most mudPost for
\* p < 1/2 and at least mudPost for p > 1/2; the outer argument p has no effect.
C14_DiffQtlMonotone ==
    (op = "NormalMuDiffQtlNPriUn" /\ InUnit(args.p)) =>
        /\ out.st = "ok"
        /\ \A k \in 1 .. Len(out.calls) :
               out.calls[k].at # <<>> => InUnit(out.calls[k].at[1])
        /\ RLt(args.p, Half) => SurdLe(out.ret, Lift(DiffMuPost))
        /\ RLt(Half, args.p) => SurdLe(Lift(DiffMuPost), out.ret)
        /\ \A p2 \in DiffProbs :
               (InUnit(p2) /\ RLe(args.p, p2)) =>
                   SurdLe(out.ret, DiffQtlAt(args.p0, p2).ret)
        /\ \A p0 \in OuterProbs : DiffQtlAt(p0, args.p) = out

====
